---- MODULE Spec2Model ----
(***************************************************************************)
(* Write-behind inventory buffer (RedisInventoryBuffer): the Redis hash    *)
(* "<prefix>:buffer", the Redis set "<prefix>:pending", the producers'     *)
(* Add, the flush goroutine (backgroundFlush / FlushBatch), the cleanup    *)
(* goroutine (backgroundCleanup / CleanupStale) and Close.                 *)
(*                                                                         *)
(* Every Redis command is one atomic step.  A go-redis Pipeline() is not   *)
(* a transaction: its commands run one after the other on the server and   *)
(* commands of other connections may run between them.  The Lua script     *)
(* deleteIfUnchangedScript runs atomically.                                *)
(***************************************************************************)
EXTENDS Integers, FiniteSets, Sequences, TLC

\* ------------------------------------------------------------------ bounds
\* Latest wall-clock reading the model explores (in units of the threshold).
MaxTime == 2
\* Add calls, ticks of flushTicker and ticks of cleanupTicker the model explores.
MaxAdds == 2
MaxFlushTicks == 2
MaxReapTicks == 1

\* ------------------------------------------------------- program constants
\* recovery.go:48 sets 500; scaled so that the pending set can exceed it.
MaxBatchSize == 2
\* recovery.go:55 sets one hour; the clock of the model counts in that unit.
StaleDataThreshold == 1

Keys == {"u1", "u2", "u3"}
Payloads == {"a", "b"}
Times == 0..MaxTime

\* ------------------------------------------------------------ stored values
\* redis.Nil: the field is not in the hash / the key is not in a Go map.
Nil == <<>>
\* A stored string json.Unmarshal rejects.
Corrupt == <<"#">>

\* json.Marshal(&BufferedInventory{KeyAccountID, RobloxUserID, RawJSON, UpdatedAt}):
\* the stored string (RobloxUserID is the field name of the hash).
Marshal(keyAccountID, rawJSON, updatedAt) == <<keyAccountID, rawJSON, updatedAt>>

\* json.Unmarshal succeeds on data.
Parses(data) == Len(data) = 3

\* json.Unmarshal(data, &inv) for data that parses.
Unmarshal(data) == [KeyAccountID |-> data[1], RawJSON |-> data[2], UpdatedAt |-> data[3]]

\* The strings the hash can hold when no Add is given a key account.
Values == {Marshal(0, p, t) : p \in Payloads, t \in Times} \cup {Corrupt}

VARIABLES
  buffer,        \* the hash  bufferKey():  user ID -> stored string, or Nil
  pending,       \* the set   pendingKey()
  now,           \* time.Now()
  adds,          \* user IDs whose Add pipeline has run HSET and not yet SADD
  fl,            \* the backgroundFlush goroutine and its FlushBatch frame
  rp,            \* the backgroundCleanup goroutine and its CleanupStale frame
  stopFlush,     \* the channel stopFlush is closed
  clientClosed,  \* client.Close() has run
  persisted,     \* the durable store behind flushFunc: user ID -> last upserted string
  latest,        \* history: the string written by the latest Add of each user ID
  hAdd,          \* history: user IDs an Add wrote after FlushBatch read them and before flushFunc returned
  hReap,         \* history: selected user IDs CleanupStale removed something of, this FlushBatch
  used,          \* history: Add calls and ticker firings so far
  hDrain,        \* history: "none" before Close; then whether the shutdown is still a clean
                 \* one (see CleanStore, Spoilt) and the hash as Close found it
  tickC,         \* the stopped tickers whose channel C still holds a tick
  sy,            \* the SyncRawInventory call in progress (InventoryService)
  rd,            \* the GetRawInventory call in progress (InventoryService)
  mu,            \* InventoryBuffer.mu: "" or the caller that holds it
  pendingMap,    \* InventoryBuffer.pending: a Go map, user ID -> *BufferedInventory
  mf,            \* the InventoryBuffer.Flush calls: caller -> frame
  latestMap,     \* history: the record made by the latest InventoryBuffer.Add of each user ID
  memStopFlush,  \* InventoryBuffer.stopFlush is closed
  crashed        \* a goroutine has panicked with no recover: the process has exited

\* The in-process buffer (InventoryBuffer).
memVars == <<mu, pendingMap, mf, latestMap, memStopFlush, crashed>>

vars == <<buffer, pending, now, adds, fl, rp, stopFlush, clientClosed,
          persisted, latest, hAdd, hReap, used, hDrain, tickC, sy, rd, memVars>>

store == <<buffer, pending>>

\* ---------------------------------------------------------------- frames
NoData == [k \in Keys |-> Nil]

FlIdle == [pc |-> "idle", mode |-> "tick", expired |-> FALSE, userIDs |-> {},
           sel |-> {}, cur |-> "", originalData |-> NoData, items |-> {},
           evict |-> {}, flushed |-> 0, err |-> "nil"]

RpIdle == [pc |-> "idle", expired |-> FALSE, userIDs |-> {}, staleThreshold |-> 0,
           staleCount |-> 0, pipe |-> <<>>, ret |-> 0, err |-> "nil"]

\* SyncRawInventory is not running.
SyIdle == [pc |-> "idle", robloxUserID |-> "", keyAccountRepo |-> "nil",
           lookup |-> "none", keyAccountID |-> 0, data |-> Nil,
           before |-> <<Nil, FALSE>>, err |-> "nil"]

\* GetRawInventory is not running.
RdIdle == [pc |-> "idle", robloxUserID |-> "", floor |-> Nil, newer |-> {}, res |-> Nil]

\* An empty Go map.
EmptyMap == [k \in {} |-> Nil]

\* The callers of InventoryBuffer.Flush: the backgroundFlush goroutine and a
\* caller of the exported method.
Flushers == {"bg", "api"}

\* InventoryBuffer.Flush is not running.
MfIdle == [pc |-> "idle", items |-> EmptyMap, err |-> "nil"]

\* A command on the connection fails: the client is closed or ctx has expired.
StoreDown(expired) == clientClosed \/ expired

\* The store NewRedisInventoryBuffer connects to holds what earlier processes
\* left under the prefix: per user ID nothing, an indexed record that was
\* never flushed, or an indexed string that does not parse.
InitOn(users) ==
  /\ \E left \in [users -> {Nil, Corrupt, Marshal(0, "a", 0)}] :
       /\ buffer = [k \in Keys |-> IF k \in users THEN left[k] ELSE Nil]
       /\ pending = {k \in users : left[k] # Nil}
  /\ now = 0
  /\ adds = {}
  /\ fl = FlIdle
  /\ rp = RpIdle
  /\ stopFlush = FALSE
  /\ clientClosed = FALSE
  /\ persisted = NoData
  /\ latest = NoData
  /\ hAdd = {}
  /\ hReap = {}
  /\ used = [add |-> 0, flush |-> 0, reap |-> 0, madd |-> 0, mflush |-> 0]
  /\ hDrain = [st |-> "none", at |-> NoData]
  /\ tickC = {}
  /\ sy = SyIdle
  /\ rd = RdIdle
  /\ mu = ""
  /\ pendingMap = EmptyMap
  /\ mf = [c \in Flushers |-> MfIdle]
  /\ latestMap = EmptyMap
  /\ memStopFlush = FALSE
  /\ crashed = FALSE

\* History: after Close, an Add, a flushFunc error or an expired deadline makes
\* the shutdown one the drain need not complete.
Spoilt == IF hDrain.st = "none" THEN hDrain ELSE [st |-> "dirty", at |-> NoData]

\* ------------------------------------------------------------------ clock
\* time.Now() reads later than before.  The clock counts in units of
\* StaleDataThreshold (one hour).
Clock ==
  /\ now < MaxTime
  /\ now' = now + 1
  /\ UNCHANGED <<memVars, sy, rd, tickC, buffer, pending, adds, fl, rp, stopFlush, clientClosed,
                 persisted, latest, hAdd, hReap, used, hDrain>>

\* No call lasts an hour (FlushBatch has 60 s, the drain 2 min, CleanupStale
\* 30 s, a Redis command 10 s), so a reading changes only between calls.
Tick ==
  /\ fl.pc \in {"idle", "exited"}
  /\ rp.pc \in {"idle", "exited"}
  /\ adds = {}
  /\ Clock

\* -------------------------------------------------------------------- Add
\* A GetRawInventory call in progress on k has a later Add to count with.
ReadSees(k, data) ==
  IF rd.pc = "miss" /\ rd.robloxUserID = k THEN [rd EXCEPT !.newer = @ \cup {data}] ELSE rd

\* Add, first command of the pipeline: HSET bufferKey userID jsonData.
AddHSet(keyAccountID, k, p) ==
  /\ ~clientClosed
  /\ used.add < MaxAdds
  /\ used' = [used EXCEPT !.add = @ + 1]
  /\ buffer' = [buffer EXCEPT ![k] = Marshal(keyAccountID, p, now)]
  /\ adds' = adds \cup {k}
  /\ latest' = [latest EXCEPT ![k] = Marshal(keyAccountID, p, now)]
  /\ rd' = ReadSees(k, Marshal(keyAccountID, p, now))
  /\ hAdd' = IF fl.originalData[k] # Nil /\ fl.pc \in {"loop", "srem", "hdel", "csrem", "sink"}
               THEN hAdd \cup {k} ELSE hAdd
  /\ UNCHANGED <<memVars, tickC, pending, now, fl, rp, stopFlush, clientClosed, persisted, hReap>>
  /\ hDrain' = Spoilt

\* Add, second command of the pipeline: SADD pendingKey userID.
AddSAdd(k) ==
  /\ k \in adds
  /\ pending' = pending \cup {k}
  /\ adds' = adds \ {k}
  /\ UNCHANGED <<memVars, rd, tickC, buffer, now, fl, rp, stopFlush, clientClosed, persisted,
                 latest, hAdd, hReap, used, hDrain>>

\* ------------------------------------------------------------- FlushBatch
\* Mutant: the whole set, as SMEMBERS replies.
SMembersUncapped(S, count) == {S}

\* SRANDMEMBER pendingKey count, count > 0: the possible replies, each a set
\* of min(count, SCARD) distinct members.
SRandMemberN(S, count) ==
  {T \in SUBSET S : Cardinality(T) = IF Cardinality(S) < count THEN Cardinality(S) ELSE count}

\* Mutant: the script with its SREM outside the comparison.
DeleteIfUnchangedSRemAlways(userID, rawJSON) ==
  IF buffer[userID] = rawJSON
    THEN <<[buffer EXCEPT ![userID] = Nil], pending \ {userID}>>
    ELSE <<buffer, pending \ {userID}>>

\* Mutant: the script without its comparison (an unconditional HDEL + SREM).
DeleteAlways(userID, rawJSON) ==
  <<[buffer EXCEPT ![userID] = Nil], pending \ {userID}>>

\* Mutant: the script deleting the whole pending set on a match.
DeleteIfUnchangedDropsSet(userID, rawJSON) ==
  IF buffer[userID] = rawJSON
    THEN <<[buffer EXCEPT ![userID] = Nil], {}>>
    ELSE <<buffer, pending>>

\* deleteIfUnchangedScript with KEYS = {bufferKey, pendingKey}, ARGV = {userID, rawJSON}:
\* the hash and the set after the script has run.
DeleteIfUnchanged(userID, rawJSON) ==
  IF buffer[userID] = rawJSON
    THEN <<[buffer EXCEPT ![userID] = Nil], pending \ {userID}>>
    ELSE <<buffer, pending>>

\* What flushFunc upserts for one item (KeyAccountID, RawJSON, SyncedAt = UpdatedAt).
Row(inv) == <<inv.KeyAccountID, inv.RawJSON, inv.UpdatedAt>>

\* FlushBatch returns (flushed, err) from frame f; the frame stays readable
\* until backgroundFlush goes on.
FlRet(f, flushed, err) ==
  [f EXCEPT !.pc = "ret", !.flushed = flushed, !.err = err,
            !.userIDs = {}, !.cur = "", !.evict = {}]

\* Mutant: the collect loop without its "len(items) == 0" return.
FlLoopNoEmptyCheck(f) ==
  IF f.userIDs # {} THEN [f EXCEPT !.pc = "loop", !.cur = ""]
  ELSE [f EXCEPT !.pc = "sink", !.cur = ""]

\* The collect loop goes on from frame f: the next iteration, or after the
\* last one "return 0, nil" when items is empty, else the call of flushFunc.
FlLoop(f) ==
  IF f.userIDs # {} THEN [f EXCEPT !.pc = "loop", !.cur = ""]
  ELSE IF f.items = {} THEN FlRet(f, 0, "nil")
  ELSE [f EXCEPT !.pc = "sink", !.cur = ""]

\* Mutant: an empty SRANDMEMBER reply taken for an error.
FlCallEmptyIsError(mode, expired) ==
  LET f == [FlIdle EXCEPT !.mode = mode, !.expired = expired]
  IN {IF T = {} THEN FlRet(f, 0, "store")
                ELSE [f EXCEPT !.pc = "loop", !.userIDs = T, !.sel = T]
      : T \in SRandMemberN(pending, MaxBatchSize)}

\* FlushBatch up to the collect loop, called with a context (expired or not):
\* SRandMemberN, its error return, the empty-reply return, the allocation of
\* items and originalData.  The frames it can reach.
FlCall(mode, expired) ==
  LET f == [FlIdle EXCEPT !.mode = mode, !.expired = expired]
  IN IF StoreDown(expired) THEN {FlRet(f, 0, "store")}
     ELSE {IF T = {} THEN FlRet(f, 0, "nil")
                     ELSE [f EXCEPT !.pc = "loop", !.userIDs = T, !.sel = T]
           : T \in SRandMemberN(pending, MaxBatchSize)}

\* Mutant: every tick starts a FlushBatch of its own, whether or not the
\* last one has returned.
FlushTickSpawns ==
  /\ ~stopFlush \/ "flush" \in tickC
  /\ tickC' = tickC \ {"flush"}
  /\ used' = [used EXCEPT !.flush = IF @ < MaxFlushTicks THEN @ + 1 ELSE @]
  /\ fl' \in FlCall("tick", FALSE)
  /\ hAdd' = {}
  /\ hReap' = {}
  /\ UNCHANGED <<memVars, sy, rd, buffer, pending, now, adds, rp, stopFlush, clientClosed, persisted, latest, hDrain>>

\* backgroundFlush, case <-b.flushTicker.C: FlushBatch with a fresh 60 s context.
\* The ticker sends while it runs; once it is stopped the case is ready only
\* if C still holds a tick.
FlushTick ==
  /\ fl.pc = "idle"
  /\ ~stopFlush \/ "flush" \in tickC
  /\ tickC' = tickC \ {"flush"}
  /\ used' = [used EXCEPT !.flush = IF @ < MaxFlushTicks THEN @ + 1 ELSE @]
  /\ fl' \in FlCall("tick", FALSE)
  /\ hAdd' = {}
  /\ hReap' = {}
  /\ UNCHANGED <<memVars, sy, rd, buffer, pending, now, adds, rp, stopFlush, clientClosed, persisted, latest, hDrain>>

\* Mutant: the context of the shutdown drain has no deadline.
FlushCtxExpireTickOnly ==
  /\ fl.pc \in {"loop", "srem", "hdel", "csrem", "sink"}
  /\ fl.mode = "tick"
  /\ ~fl.expired
  /\ fl' = [fl EXCEPT !.expired = TRUE]
  /\ hDrain' = Spoilt
  /\ UNCHANGED <<memVars, sy, rd, tickC, buffer, pending, now, adds, rp, stopFlush, clientClosed,
                 persisted, latest, hAdd, hReap, used>>

\* The context of the running FlushBatch reaches its deadline.
FlushCtxExpire ==
  /\ fl.pc \in {"loop", "srem", "hdel", "csrem", "sink"}
  /\ ~fl.expired
  /\ fl' = [fl EXCEPT !.expired = TRUE]
  /\ hDrain' = Spoilt
  /\ UNCHANGED <<memVars, sy, rd, tickC, buffer, pending, now, adds, rp, stopFlush, clientClosed,
                 persisted, latest, hAdd, hReap, used>>

\* One iteration of the collect loop up to its first write: HGET, then
\* redis.Nil / error / originalData[userID] = data / json.Unmarshal / append.
FlushHGet(userID) ==
  /\ fl.pc = "loop"
  /\ userID \in fl.userIDs
  /\ LET rest == fl.userIDs \ {userID}
         data == buffer[userID]
     IN fl' = IF StoreDown(fl.expired) THEN FlLoop([fl EXCEPT !.userIDs = rest])
              ELSE IF data = Nil
                THEN [fl EXCEPT !.userIDs = rest, !.pc = "srem", !.cur = userID]
              ELSE IF ~Parses(data)
                THEN [fl EXCEPT !.userIDs = rest, !.pc = "hdel", !.cur = userID,
                                !.originalData[userID] = data]
              ELSE FlLoop([fl EXCEPT !.userIDs = rest, !.originalData[userID] = data,
                                     !.items = @ \cup {userID}])
  /\ UNCHANGED <<memVars, sy, rd, tickC, buffer, pending, now, adds, rp, stopFlush, clientClosed,
                 persisted, latest, hAdd, hReap, used, hDrain>>

\* Mutant: a missing record is skipped and its user ID stays in the set.
FlushSRemMissingKeeps ==
  /\ fl.pc = "srem"
  /\ fl' = FlLoop(fl)
  /\ UNCHANGED <<memVars, sy, rd, tickC, buffer, pending, now, adds, rp, stopFlush, clientClosed,
                 persisted, latest, hAdd, hReap, used, hDrain>>

\* "Already deleted, remove from pending set": SREM pendingKey userID (result ignored).
FlushSRemMissing ==
  /\ fl.pc = "srem"
  /\ pending' = IF StoreDown(fl.expired) THEN pending ELSE pending \ {fl.cur}
  /\ fl' = FlLoop(fl)
  /\ UNCHANGED <<memVars, sy, rd, tickC, buffer, now, adds, rp, stopFlush, clientClosed, persisted,
                 latest, hAdd, hReap, used, hDrain>>

\* Mutant: the corrupt branch without its HDEL.
FlushCorruptKeep ==
  /\ fl.pc = "hdel"
  /\ fl' = [fl EXCEPT !.pc = "csrem"]
  /\ UNCHANGED <<memVars, sy, rd, tickC, buffer, pending, now, adds, rp, stopFlush, clientClosed,
                 persisted, latest, hAdd, hReap, used, hDrain>>

\* "Remove corrupt data", first command: HDEL bufferKey userID (result ignored).
FlushCorruptHDel ==
  /\ fl.pc = "hdel"
  /\ buffer' = IF StoreDown(fl.expired) THEN buffer ELSE [buffer EXCEPT ![fl.cur] = Nil]
  /\ fl' = [fl EXCEPT !.pc = "csrem"]
  /\ UNCHANGED <<memVars, sy, rd, tickC, pending, now, adds, rp, stopFlush, clientClosed, persisted,
                 latest, hAdd, hReap, used, hDrain>>

\* "Remove corrupt data", second command: SREM pendingKey userID (result ignored).
FlushCorruptSRem ==
  /\ fl.pc = "csrem"
  /\ pending' = IF StoreDown(fl.expired) THEN pending ELSE pending \ {fl.cur}
  /\ fl' = FlLoop(fl)
  /\ UNCHANGED <<memVars, sy, rd, tickC, buffer, now, adds, rp, stopFlush, clientClosed, persisted,
                 latest, hAdd, hReap, used, hDrain>>

\* Mutant: the batch is cleared from the store whatever flushFunc returned.
FlushSinkFailEvicts ==
  /\ fl.pc = "sink"
  /\ buffer' = [k \in Keys |-> IF k \in fl.items THEN Nil ELSE buffer[k]]
  /\ pending' = pending \ fl.items
  /\ fl' = FlRet(fl, 0, "sink")
  /\ hDrain' = Spoilt
  /\ UNCHANGED <<memVars, sy, rd, tickC, now, adds, rp, stopFlush, clientClosed,
                 persisted, latest, hAdd, hReap, used>>

\* flushFunc returns an error: FlushBatch returns 0, err.
FlushSinkFail ==
  /\ fl.pc = "sink"
  /\ fl' = FlRet(fl, 0, "sink")
  /\ UNCHANGED <<memVars, sy, rd, tickC, buffer, pending, now, adds, rp, stopFlush, clientClosed,
                 persisted, latest, hAdd, hReap, used>>
  /\ hDrain' = Spoilt

\* flushFunc returns nil: the items are upserted; one script call per entry of
\* originalData is queued and pipe.Exec sends them (an Exec error is only logged).
FlushSinkOk ==
  /\ fl.pc = "sink"
  /\ persisted' = [k \in Keys |-> IF k \in fl.items
                                    THEN Row(Unmarshal(fl.originalData[k]))
                                    ELSE persisted[k]]
  /\ fl' = IF StoreDown(fl.expired)
             THEN FlRet(fl, Cardinality(fl.items), "nil")
             ELSE [fl EXCEPT !.pc = "evict",
                             !.evict = {k \in Keys : fl.originalData[k] # Nil}]
  /\ UNCHANGED <<memVars, sy, rd, tickC, buffer, pending, now, adds, rp, stopFlush, clientClosed,
                 latest, hAdd, hReap, used, hDrain>>

\* One queued deleteIfUnchangedScript call runs on the server (map order is
\* arbitrary); after the last one pipe.Exec returns: return len(items), nil.
FlushEvict(userID) ==
  /\ fl.pc = "evict"
  /\ userID \in fl.evict
  /\ LET after == DeleteIfUnchanged(userID, fl.originalData[userID])
     IN /\ buffer' = after[1]
        /\ pending' = after[2]
  /\ fl' = IF fl.evict = {userID} THEN FlRet(fl, Cardinality(fl.items), "nil")
           ELSE [fl EXCEPT !.evict = @ \ {userID}]
  /\ UNCHANGED <<memVars, sy, rd, tickC, now, adds, rp, stopFlush, clientClosed, persisted, latest,
                 hAdd, hReap, used, hDrain>>

\* Mutant: the goroutine returns when FlushBatch has returned an error.
FlushAfterTickStopsOnError ==
  /\ fl.pc = "ret"
  /\ fl.mode = "tick"
  /\ fl' = IF fl.err # "nil" THEN [FlIdle EXCEPT !.pc = "exited"] ELSE FlIdle
  /\ hAdd' = {}
  /\ hReap' = {}
  /\ UNCHANGED <<memVars, sy, rd, tickC, buffer, pending, now, adds, rp, stopFlush, clientClosed,
                 persisted, latest, used, hDrain>>

\* backgroundFlush after FlushBatch has returned in the ticker case: the error
\* is logged, cancel(), back to the select.
FlushAfterTick ==
  /\ fl.pc = "ret"
  /\ fl.mode = "tick"
  /\ fl' = FlIdle
  /\ hAdd' = {}
  /\ hReap' = {}
  /\ UNCHANGED <<memVars, sy, rd, tickC, buffer, pending, now, adds, rp, stopFlush, clientClosed,
                 persisted, latest, used, hDrain>>

\* Mutant: one final FlushBatch instead of the loop.
FlushAfterDrainOnce ==
  /\ fl.pc = "ret"
  /\ fl.mode = "drain"
  /\ fl' = [FlIdle EXCEPT !.pc = "exited"]
  /\ UNCHANGED <<memVars, sy, rd, tickC, buffer, pending, now, adds, rp, stopFlush, clientClosed,
                 persisted, latest, used, hAdd, hReap, hDrain>>

\* The drain loop after FlushBatch has returned: break on err, break on
\* flushed == 0, else call FlushBatch again with the same context (whose
\* deadline may have passed meanwhile).
FlushAfterDrain ==
  /\ fl.pc = "ret"
  /\ fl.mode = "drain"
  /\ IF fl.err # "nil" \/ fl.flushed = 0
       THEN fl' = [FlIdle EXCEPT !.pc = "exited"] /\ hDrain' = hDrain
       ELSE \E expired \in {fl.expired, TRUE} :
              /\ fl' \in FlCall("drain", expired)
              /\ hDrain' = IF expired # fl.expired THEN Spoilt ELSE hDrain
  /\ hAdd' = {}
  /\ hReap' = {}
  /\ UNCHANGED <<memVars, sy, rd, tickC, buffer, pending, now, adds, rp, stopFlush, clientClosed,
                 persisted, latest, used>>

\* backgroundFlush, case <-b.stopFlush: a 2 min context and the first FlushBatch
\* of the drain.  The goroutine never receives from flushTicker.C again.
FlushDrain ==
  /\ fl.pc = "idle"
  /\ stopFlush
  /\ tickC' = tickC \ {"flush"}
  /\ fl' \in FlCall("drain", FALSE)
  /\ hAdd' = {}
  /\ hReap' = {}
  /\ UNCHANGED <<memVars, sy, rd, buffer, pending, now, adds, rp, stopFlush, clientClosed,
                 persisted, latest, used, hDrain>>

\* ------------------------------------------------------------------ Close
\* Nothing is part-way through a write and every record parses and is indexed.
CleanStore ==
  /\ adds = {}
  /\ rp.pc = "idle"
  /\ fl.pc \in {"idle", "loop", "sink", "evict", "ret"}
  /\ \A k \in Keys : IF buffer[k] = Nil THEN k \notin pending
                                       ELSE Parses(buffer[k]) /\ k \in pending

\* The tickers NewRedisInventoryBuffer creates.
Tickers == {"flush", "cleanup"}

\* Close, stopOnce.Do: both tickers stopped, stopFlush closed.  Ticker.Stop
\* does not close C, and whether a tick sent before Stop and not yet received
\* stays in C (left) depends on the Go release the program is built with
\* (C has capacity 1 up to Go 1.22; no go.mod fixes the release).
CloseStop(left) ==
  /\ ~stopFlush
  /\ stopFlush' = TRUE
  /\ tickC' = left
  /\ UNCHANGED <<memVars, sy, rd, buffer, pending, now, adds, fl, rp, clientClosed, persisted,
                 latest, hAdd, hReap, used>>
  /\ hDrain' = IF CleanStore THEN [st |-> "clean", at |-> buffer] ELSE [hDrain EXCEPT !.st = "dirty"]

\* Close, return b.client.Close().
CloseClient ==
  /\ stopFlush
  /\ ~clientClosed
  /\ clientClosed' = TRUE
  /\ UNCHANGED <<memVars, sy, rd, tickC, buffer, pending, now, adds, fl, rp, stopFlush, persisted,
                 latest, hAdd, hReap, used, hDrain>>

\* ----------------------------------------------------------- CleanupStale
\* CleanupStale returns (staleCount, err) and backgroundCleanup is back at its select.
RpRet(staleCount, err) == [RpIdle EXCEPT !.ret = staleCount, !.err = err]

\* Mutant: a record exactly as old as the threshold counts as stale.
IsStaleInclusive(inv, staleThreshold) == inv.UpdatedAt <= staleThreshold

\* inv.UpdatedAt.Before(staleThreshold)
IsStale(inv, staleThreshold) == inv.UpdatedAt < staleThreshold

\* One queued pipeline command applied to the hash and the set.
Apply(cmd) ==
  IF cmd[1] = "HDEL" THEN <<[buffer EXCEPT ![cmd[2]] = Nil], pending>>
                     ELSE <<buffer, pending \ {cmd[2]}>>

\* The scan loop goes on from frame r: the next iteration, or after the last
\* one pipe.Exec if staleCount > 0, else "return staleCount, nil".
RpLoop(r) ==
  IF r.userIDs # {} THEN r
  ELSE IF r.staleCount = 0 THEN RpRet(0, "nil")
  ELSE IF StoreDown(r.expired) THEN RpRet(0, "store")
  ELSE [r EXCEPT !.pc = "exec"]

\* backgroundCleanup, case <-b.cleanupTicker.C: CleanupStale with a fresh 30 s
\* context: SMEMBERS pendingKey, its error return, the empty-reply return,
\* staleThreshold = time.Now().Add(-StaleDataThreshold).
ReapTick ==
  /\ rp.pc = "idle"
  /\ ~stopFlush \/ "cleanup" \in tickC
  /\ tickC' = tickC \ {"cleanup"}
  /\ used' = [used EXCEPT !.reap = IF @ < MaxReapTicks THEN @ + 1 ELSE @]
  /\ rp' = IF clientClosed THEN RpRet(0, "store")
           ELSE IF pending = {} THEN RpRet(0, "nil")
           ELSE [RpIdle EXCEPT !.pc = "loop", !.userIDs = pending,
                               !.staleThreshold = now - StaleDataThreshold]
  /\ UNCHANGED <<memVars, sy, rd, buffer, pending, now, adds, fl, stopFlush, clientClosed,
                 persisted, latest, hAdd, hReap, hDrain>>

\* The context of the running CleanupStale reaches its deadline during the scan.
ReapCtxExpire ==
  /\ rp.pc = "loop"
  /\ ~rp.expired
  /\ rp' = [rp EXCEPT !.expired = TRUE]
  /\ UNCHANGED <<memVars, sy, rd, tickC, buffer, pending, now, adds, fl, stopFlush,
                 clientClosed, persisted, latest, hAdd, hReap, used, hDrain>>

\* backgroundCleanup, case <-b.stopFlush: return.
ReapStop ==
  /\ rp.pc = "idle"
  /\ stopFlush
  /\ rp' = [RpIdle EXCEPT !.pc = "exited"]
  /\ tickC' = tickC \ {"cleanup"}
  /\ UNCHANGED <<memVars, sy, rd, buffer, pending, now, adds, fl, stopFlush, clientClosed,
                 persisted, latest, hAdd, hReap, used, hDrain>>

\* One iteration of the scan loop: HGET, then what is queued on the pipeline.
ReapHGet(userID) ==
  /\ rp.pc = "loop"
  /\ userID \in rp.userIDs
  /\ LET rest == rp.userIDs \ {userID}
         data == buffer[userID]
         drop == <<<<"HDEL", userID>>, <<"SREM", userID>>>>
     IN rp' = IF StoreDown(rp.expired) THEN RpLoop([rp EXCEPT !.userIDs = rest])
              ELSE IF data = Nil
                THEN RpLoop([rp EXCEPT !.userIDs = rest,
                                       !.pipe = Append(@, <<"SREM", userID>>)])
              ELSE IF ~Parses(data) \/ IsStale(Unmarshal(data), rp.staleThreshold)
                THEN RpLoop([rp EXCEPT !.userIDs = rest, !.pipe = @ \o drop,
                                       !.staleCount = @ + 1])
              ELSE RpLoop([rp EXCEPT !.userIDs = rest])
  /\ UNCHANGED <<memVars, sy, rd, tickC, buffer, pending, now, adds, fl, stopFlush, clientClosed,
                 persisted, latest, hAdd, hReap, used, hDrain>>

\* The next queued command of the pipeline runs on the server; after the last
\* one pipe.Exec returns: return staleCount, nil.
ReapExec ==
  /\ rp.pc = "exec"
  /\ LET cmd == Head(rp.pipe)
         after == Apply(cmd)
     IN /\ buffer' = after[1]
        /\ pending' = after[2]
        /\ hReap' = IF cmd[2] \in fl.sel THEN hReap \cup {cmd[2]} ELSE hReap
  /\ rp' = IF Len(rp.pipe) = 1 THEN RpRet(rp.staleCount, "nil")
           ELSE [rp EXCEPT !.pipe = Tail(@)]
  /\ UNCHANGED <<memVars, sy, rd, tickC, now, adds, fl, stopFlush, clientClosed, persisted, latest, hAdd, used, hDrain>>

\* ------------------------------------------------------------ the system
\* Producers calling Add with no key account (KeyAccountID 0).
AddStep(users) ==
  \/ \E k \in users, p \in Payloads : AddHSet(0, k, p) /\ UNCHANGED sy
  \/ \E k \in users : AddSAdd(k) /\ UNCHANGED sy

\* FlushBatch after its SRandMemberN, and the ticker case after it.
FlushBody ==
  \/ \E k \in Keys : FlushHGet(k)
  \/ FlushSRemMissing
  \/ FlushCorruptHDel
  \/ FlushCorruptSRem
  \/ FlushSinkFail
  \/ FlushSinkOk
  \/ \E k \in Keys : FlushEvict(k)
  \/ FlushAfterTick

FlushStep ==
  \/ used.flush < MaxFlushTicks /\ FlushTick
  \/ FlushBody

\* Close and what backgroundFlush does once stopFlush is closed, with the
\* given tickers running.
CloseStep(tickers) ==
  \/ \E left \in SUBSET tickers : CloseStop(left)
  \/ CloseClient
  \/ FlushDrain
  \/ FlushAfterDrain
  \/ FlushCtxExpire

ReapStep ==
  \/ used.reap < MaxReapTicks /\ ReapTick
  \/ ReapStop
  \/ \E k \in Keys : ReapHGet(k)
  \/ ReapExec

\* Producers and the flush goroutine on every user ID.
NextFlush == AddStep(Keys) \/ FlushStep

SpecFlush == InitOn(Keys) /\ [][NextFlush]_vars

\* Producers, the flush goroutine and Close on two user IDs.
Two == {"u1", "u2"}

NextClose == AddStep(Two) \/ FlushStep \/ CloseStep({"flush"})

SpecClose == InitOn(Two) /\ [][NextClose]_vars

\* The whole buffer on one user ID.
One == {"u1"}

\* Producers and the flush goroutine on one user ID, the ticker firing for
\* ever: the ticker keeps firing, the goroutine and the server keep running,
\* and flushFunc does not fail for ever.
NextLive == AddStep(One) \/ FlushTick \/ FlushBody

Fairness ==
  /\ WF_vars(FlushTick)
  /\ WF_vars(FlushBody)
  /\ SF_vars(FlushSinkOk)
  /\ WF_vars(\E k \in Keys : AddSAdd(k) /\ UNCHANGED sy)

SpecLive == InitOn(One) /\ [][NextLive]_vars /\ Fairness

\* Producers, the clock and the cleanup goroutine on two user IDs, each
\* CleanupStale call running with no Add under way.
NextReap ==
  \/ Tick
  \/ rp.pc = "idle" /\ AddStep(Two)
  \/ adds = {} /\ ReapTick
  \/ \E k \in Keys : ReapHGet(k)
  \/ ReapExec

SpecReap == InitOn(Two) /\ [][NextReap]_vars

\* The flush goroutine and the cleanup goroutine on every user ID, with no
\* producer and the clock standing.
NextPurge ==
  \/ FlushStep
  \/ used.reap < MaxReapTicks /\ ReapTick
  \/ \E k \in Keys : ReapHGet(k)
  \/ ReapExec

SpecPurge == InitOn(Keys) /\ [][NextPurge]_vars

\* Producers, the clock, the flush goroutine and the cleanup goroutine on one
\* user ID, with no Close.
NextRace ==
  \/ Tick
  \/ AddStep(One)
  \/ FlushStep
  \/ used.reap < MaxReapTicks /\ ReapTick
  \/ \E k \in Keys : ReapHGet(k)
  \/ ReapExec

SpecRace == InitOn(One) /\ [][NextRace]_vars

\* Producers, the clock, the flush goroutine and the cleanup goroutine on one
\* user ID, both tickers firing for ever: time passes (also while a call
\* runs, as nothing bounds how often the calls follow each other), the tickers
\* keep firing, the goroutines and the server keep running; flushFunc may fail
\* every time.
NextLiveReap ==
  \/ Clock
  \/ AddStep(One)
  \/ FlushTick
  \/ FlushBody
  \/ ReapTick
  \/ \E k \in Keys : ReapHGet(k)
  \/ ReapExec

FairnessReap ==
  /\ WF_vars(Clock)
  /\ WF_vars(ReapTick)
  /\ WF_vars((\E k \in Keys : ReapHGet(k)) \/ ReapExec)
  /\ WF_vars(FlushTick)
  /\ WF_vars(FlushBody)
  /\ WF_vars(\E k \in Keys : AddSAdd(k) /\ UNCHANGED sy)

SpecLiveReap == InitOn(One) /\ [][NextLiveReap]_vars /\ FairnessReap

Init == InitOn(One)

Next == Tick \/ AddStep(One) \/ FlushStep \/ CloseStep(Tickers) \/ ReapStep

Spec == Init /\ [][Next]_vars

\* ------------------------------------------------ Get and Count (Redis)
\* A BufferedInventory with nothing in it.
NoInv == [KeyAccountID |-> 0, RawJSON |-> "", UpdatedAt |-> 0]

\* RedisInventoryBuffer.Get: HGET, then (nil, nil) on redis.Nil, (nil, err) on
\* an error or a string that does not parse, else (&inv, nil).
Get(robloxUserID) ==
  IF clientClosed THEN [found |-> FALSE, inv |-> NoInv, err |-> "store"]
  ELSE IF buffer[robloxUserID] = Nil THEN [found |-> FALSE, inv |-> NoInv, err |-> "nil"]
  ELSE IF ~Parses(buffer[robloxUserID]) THEN [found |-> FALSE, inv |-> NoInv, err |-> "json"]
  ELSE [found |-> TRUE, inv |-> Unmarshal(buffer[robloxUserID]), err |-> "nil"]

\* RedisInventoryBuffer.Count: SCARD pendingKey.
Count == Cardinality(pending)

\* ------------------------------------------- InventoryBuffer (in-process)
\* &BufferedInventory{KeyAccountID, RobloxUserID, RawJSON: jsonCopy, UpdatedAt}
Inv(keyAccountID, rawJSON, updatedAt) ==
  [KeyAccountID |-> keyAccountID, RawJSON |-> rawJSON, UpdatedAt |-> updatedAt]

\* m[k] = v on a Go map.
MapSet(m, k, v) == [j \in DOMAIN m \cup {k} |-> IF j = k THEN v ELSE m[j]]

\* Mutant: an Add that keeps the entry the map already has.
InventoryBufferAddKeepsFirst(keyAccountID, robloxUserID, rawJSON) ==
  /\ mu = ""
  /\ pendingMap' = IF robloxUserID \in DOMAIN pendingMap THEN pendingMap
                   ELSE MapSet(pendingMap, robloxUserID, Inv(keyAccountID, rawJSON, now))
  /\ latestMap' = MapSet(latestMap, robloxUserID, Inv(keyAccountID, rawJSON, now))
  /\ used' = [used EXCEPT !.madd = IF @ < MaxAdds THEN @ + 1 ELSE @]
  /\ UNCHANGED <<mu, mf, sy, rd, tickC, buffer, pending, now, adds, fl, rp, stopFlush,
                 clientClosed, persisted, latest, hAdd, hReap, hDrain, memStopFlush, crashed>>

\* InventoryBuffer.Add: Lock, the copy, the map assignment, the deferred Unlock.
InventoryBufferAdd(keyAccountID, robloxUserID, rawJSON) ==
  /\ mu = ""
  /\ pendingMap' = MapSet(pendingMap, robloxUserID, Inv(keyAccountID, rawJSON, now))
  /\ latestMap' = MapSet(latestMap, robloxUserID, Inv(keyAccountID, rawJSON, now))
  /\ used' = [used EXCEPT !.madd = IF @ < MaxAdds THEN @ + 1 ELSE @]
  /\ UNCHANGED <<mu, mf, sy, rd, tickC, buffer, pending, now, adds, fl, rp, stopFlush,
                 clientClosed, persisted, latest, hAdd, hReap, hDrain, memStopFlush, crashed>>

\* InventoryBuffer.Get under RLock: (inv, exists).
InventoryBufferGet(robloxUserID) ==
  IF robloxUserID \in DOMAIN pendingMap
    THEN [inv |-> pendingMap[robloxUserID], exists |-> TRUE]
    ELSE [inv |-> NoInv, exists |-> FALSE]

\* InventoryBuffer.Count under RLock: len(b.pending).
InventoryBufferCount == Cardinality(DOMAIN pendingMap)

\* What the in-process actions other than Add leave alone.
MemRest == <<sy, rd, tickC, buffer, pending, now, adds, fl, rp, stopFlush,
             clientClosed, latest, hAdd, hReap, hDrain, latestMap, memStopFlush, crashed>>

\* InventoryBuffer.Flush called by c: b.mu.Lock().
FlushLock(c) ==
  /\ mf[c].pc \in {"idle", "ret"}
  /\ mu = ""
  /\ mu' = c
  /\ mf' = [mf EXCEPT ![c] = [MfIdle EXCEPT !.pc = "locked"]]
  /\ used' = [used EXCEPT !.mflush = IF @ < MaxFlushTicks THEN @ + 1 ELSE @]
  /\ UNCHANGED <<MemRest, pendingMap, persisted>>

\* Mutant: the lock is kept until flushFunc has returned.
FlushTakeKeepsLock(c) ==
  /\ mf[c].pc = "locked"
  /\ IF DOMAIN pendingMap = {}
       THEN /\ mf' = [mf EXCEPT ![c] = [MfIdle EXCEPT !.pc = "ret"]]
            /\ mu' = ""
            /\ pendingMap' = pendingMap
       ELSE /\ mf' = [mf EXCEPT ![c] = [MfIdle EXCEPT !.pc = "sink", !.items = pendingMap]]
            /\ mu' = c
            /\ pendingMap' = EmptyMap
  /\ UNCHANGED <<MemRest, used, persisted>>

\* Flush under the lock: "return nil" on an empty map, else items collected,
\* the map replaced by an empty one; b.mu.Unlock() either way.
FlushTake(c) ==
  /\ mf[c].pc = "locked"
  /\ mu' = ""
  /\ IF DOMAIN pendingMap = {}
       THEN /\ mf' = [mf EXCEPT ![c] = [MfIdle EXCEPT !.pc = "ret"]]
            /\ pendingMap' = pendingMap
       ELSE /\ mf' = [mf EXCEPT ![c] = [MfIdle EXCEPT !.pc = "sink", !.items = pendingMap]]
            /\ pendingMap' = EmptyMap
  /\ UNCHANGED <<MemRest, used, persisted>>

\* b.flushFunc(ctx, items) returns nil: Flush returns nil.
FlushFuncOk(c) ==
  /\ mf[c].pc = "sink"
  /\ persisted' = [k \in Keys |-> IF k \in DOMAIN mf[c].items
                                    THEN Row(mf[c].items[k]) ELSE persisted[k]]
  /\ mf' = [mf EXCEPT ![c].pc = "ret"]
  /\ UNCHANGED <<MemRest, used, pendingMap, mu>>

\* b.flushFunc(ctx, items) returns an error: on to the second b.mu.Lock().
FlushFuncFail(c) ==
  /\ mf[c].pc = "sink"
  /\ mf' = [mf EXCEPT ![c].pc = "relock", ![c].err = "sink"]
  /\ UNCHANGED <<MemRest, used, pendingMap, persisted, mu>>

\* "Re-add failed items back to buffer": b.mu.Lock().
FlushReLock(c) ==
  /\ mf[c].pc = "relock"
  /\ mu = ""
  /\ mu' = c
  /\ mf' = [mf EXCEPT ![c].pc = "readd"]
  /\ UNCHANGED <<MemRest, used, pendingMap, persisted>>

\* The re-add loop ("only re-add if not already updated"), b.mu.Unlock(),
\* return err.
FlushReAdd(c) ==
  /\ mf[c].pc = "readd"
  /\ pendingMap' = [k \in DOMAIN pendingMap \cup DOMAIN mf[c].items |->
                      IF k \in DOMAIN pendingMap THEN pendingMap[k] ELSE mf[c].items[k]]
  /\ mu' = ""
  /\ mf' = [mf EXCEPT ![c].pc = "ret"]
  /\ UNCHANGED <<MemRest, used, persisted>>

\* InventoryBuffer.Close: b.flushTicker.Stop(), close(b.stopFlush), return nil.
\* close of a closed channel panics, and nothing recovers the panic.
InventoryBufferClose ==
  /\ memStopFlush' = TRUE
  /\ crashed' = memStopFlush
  /\ UNCHANGED <<mu, pendingMap, mf, latestMap, persisted, used, sy, rd, tickC, buffer,
                 pending, now, adds, fl, rp, stopFlush, clientClosed, latest, hAdd,
                 hReap, hDrain>>

\* InventoryBuffer.Flush called by c, after its first Lock.
MemFlushBody(c) ==
  \/ FlushTake(c)
  \/ FlushFuncOk(c)
  \/ FlushFuncFail(c)
  \/ FlushReLock(c)
  \/ FlushReAdd(c)

\* ------------------------------------------------------- InventoryService
\* What the Add actions leave alone besides the Redis hash, the set and adds.
AddRest == <<memVars, rd, tickC, now, fl, rp, stopFlush, clientClosed, persisted,
             latest, hAdd, hReap, used, hDrain>>

\* Add, pipe.Exec returns an error and no command of the pipeline has run
\* (closed client, connection refused, ctx already done).
AddNotSent ==
  /\ UNCHANGED <<AddRest, buffer, pending, adds>>

\* Add, pipe.Exec returns an error after the HSET has run and before the SADD
\* has (connection lost, ctx done): the SADD never runs.
AddExecBroken(k) ==
  /\ k \in adds
  /\ adds' = adds \ {k}
  /\ UNCHANGED <<AddRest, buffer, pending>>

\* The id the key_accounts table has for a linked user ID.
LinkedKeyAccountID == 7

\* What the SELECT of GetKeyAccountByRobloxUser meets: a row, no row, a
\* database error.
Lookups == {"found", "none", "error"}

\* MySQLKeyAccountRepository.GetKeyAccountByRobloxUser: (id, nil), or (0, err).
GetKeyAccountByRobloxUser(lookup) ==
  IF lookup = "found" THEN [id |-> LinkedKeyAccountID, err |-> "nil"]
  ELSE IF lookup = "none" THEN [id |-> 0, err |-> "notfound"]
  ELSE [id |-> 0, err |-> "db"]

\* SyncRawInventory up to the call of Add: keyAccountID stays 0 unless
\* s.keyAccountRepo is set, and the error of the lookup is discarded.
KeyAccountIDFor(keyAccountRepo, lookup) ==
  IF keyAccountRepo = "nil" THEN 0 ELSE GetKeyAccountByRobloxUser(lookup).id

\* The frame of a SyncRawInventory call that has looked up the key account.
SyFrame(keyAccountRepo, lookup, k, p) ==
  [SyIdle EXCEPT !.robloxUserID = k, !.keyAccountRepo = keyAccountRepo,
                 !.lookup = lookup,
                 !.keyAccountID = KeyAccountIDFor(keyAccountRepo, lookup),
                 !.data = Marshal(KeyAccountIDFor(keyAccountRepo, lookup), p, now),
                 !.before = <<buffer[k], k \in pending>>]

\* Mutant: the error of the lookup is returned and nothing is buffered.
SyncCallStrict(k, p) ==
  /\ sy.pc \in {"idle", "ret"}
  /\ \E keyAccountRepo \in {"nil", "set"}, lookup \in Lookups :
       LET f == SyFrame(keyAccountRepo, lookup, k, p)
           res == GetKeyAccountByRobloxUser(lookup)
       IN IF keyAccountRepo = "set" /\ res.err # "nil"
            THEN /\ sy' = [f EXCEPT !.pc = "ret", !.err = res.err]
                 /\ AddNotSent
            ELSE \/ /\ AddHSet(f.keyAccountID, k, p)
                    /\ sy' = [f EXCEPT !.pc = "exec"]
                 \/ /\ AddNotSent
                    /\ sy' = [f EXCEPT !.pc = "ret", !.err = "store"]

\* SyncRawInventory(ctx, k, p) with s.buffer set: the lookup, then Add up to
\* its HSET, or Add failing with nothing sent.
SyncCall(k, p) ==
  /\ sy.pc \in {"idle", "ret"}
  /\ \E keyAccountRepo \in {"nil", "set"}, lookup \in Lookups :
       LET f == SyFrame(keyAccountRepo, lookup, k, p)
       IN \/ /\ AddHSet(f.keyAccountID, k, p)
             /\ sy' = [f EXCEPT !.pc = "exec"]
          \/ /\ AddNotSent
             /\ sy' = [f EXCEPT !.pc = "ret", !.err = "store"]

\* The rest of Add and "return s.buffer.Add(...)": the SADD runs and pipe.Exec
\* returns nil, or the SADD runs and the reply is lost, or the SADD never runs.
SyncExec ==
  /\ sy.pc = "exec"
  /\ \/ /\ AddSAdd(sy.robloxUserID)
        /\ \E err \in {"nil", "store"} : sy' = [sy EXCEPT !.pc = "ret", !.err = err]
     \/ /\ AddExecBroken(sy.robloxUserID)
        /\ sy' = [sy EXCEPT !.pc = "ret", !.err = "store"]

\* What GetRawInventory returns for a record: inv.RawJSON, &inv.UpdatedAt.
Answer(inv) == <<inv.RawJSON, inv.UpdatedAt>>

\* s.inventoryRepo.GetRawInventory: the raw JSON and the sync time of the row
\* last upserted for the user ID, or nothing.
RepoGetRawInventory(robloxUserID) ==
  IF persisted[robloxUserID] = Nil THEN Nil
  ELSE <<persisted[robloxUserID][2], persisted[robloxUserID][3]>>

\* What the read actions leave alone.
ReadRest == <<memVars, sy, tickC, buffer, pending, now, adds, fl, rp, stopFlush,
              clientClosed, persisted, latest, hAdd, hReap, used, hDrain>>

\* GetRawInventory(ctx, k): s.buffer.Get, and the return if it found a record.
\* History: floor is the string of the latest Add of k if that Add has
\* returned (no floor while an Add is under way).
ReadCall(k) ==
  /\ rd.pc \in {"idle", "done"}
  /\ LET g == Get(k)
         f == [RdIdle EXCEPT !.robloxUserID = k,
                             !.floor = IF k \in adds THEN Nil ELSE latest[k]]
     IN rd' = IF g.err = "nil" /\ g.found
                THEN [f EXCEPT !.pc = "done", !.res = Answer(g.inv)]
                ELSE [f EXCEPT !.pc = "miss"]
  /\ UNCHANGED ReadRest

\* GetRawInventory falls back to the database.
ReadRepo ==
  /\ rd.pc = "miss"
  /\ rd' = [rd EXCEPT !.pc = "done", !.res = RepoGetRawInventory(rd.robloxUserID)]
  /\ UNCHANGED ReadRest

\* ================================================================ claims
\* This step is a return of FlushBatch: the frame in the next state is the
\* one FlushBatch returns from.
Returns == fl' # fl /\ fl'.pc = "ret"

\* At a return of FlushBatch: it returns (flushed, nil) after flushFunc
\* succeeded on a batch that held the snapshot of k.
FlushedOk(k) == fl.pc = "ret" /\ fl.err = "nil" /\ k \in fl.items

\* An Add wrote a value other than the snapshot of k, after the snapshot and
\* before flushFunc returned, and has completed; CleanupStale has not touched k.
NewerValue(k) ==
  /\ k \in hAdd /\ k \notin adds /\ k \notin hReap
  /\ latest[k] # fl.originalData[k]

C1_Post ==
  \A k \in Keys : FlushedOk(k) /\ NewerValue(k) => buffer[k] = latest[k] /\ k \in pending

\* C1: if FlushBatch took a snapshot of k, an Add then wrote a different value
\* for k and completed, and flushFunc then succeeded, the conditional evict
\* deleted nothing of k: when FlushBatch returns, the hash holds the value of
\* that Add and k is in the pending set.
C1_EvictSparesNewerValue == [][Returns => C1_Post']_vars

C1_Witness ==
  \E k \in Keys :
    /\ FlushedOk(k) /\ NewerValue(k)
    /\ Unmarshal(latest[k]).RawJSON # Unmarshal(fl.originalData[k]).RawJSON
    /\ persisted[k] = fl.originalData[k]
    /\ buffer[k] = latest[k] /\ k \in pending

C6_Post ==
  fl.pc = "ret" /\ fl.err = "sink"
  => /\ fl.flushed = 0
     /\ \A k \in fl.items :
          k \notin hAdd /\ k \notin hReap
          => buffer[k] = fl.originalData[k] /\ k \in pending

\* C6: when flushFunc fails, FlushBatch returns (0, the error) and has evicted
\* nothing: at the return every snapshot of the batch is still the stored value
\* and its user ID is still pending, for the user IDs no Add and no
\* CleanupStale touched meanwhile.
C6_SinkErrorEvictsNothing == [][Returns => C6_Post']_vars

C6_Witness ==
  /\ fl.pc = "ret" /\ fl.err = "sink" /\ fl.flushed = 0
  /\ \E k \in fl.items : k \notin hAdd /\ k \notin hReap /\ buffer[k] = fl.originalData[k]
  /\ \E k \in fl.items : k \in hAdd /\ buffer[k] # fl.originalData[k]

\* C2: whenever a user ID has been Added, no Add of it is under way and the
\* hash holds no record of it, the row last persisted for it is the value of
\* its latest Add.
C2_PersistedIsLatest ==
  \A k \in Keys :
    latest[k] # Nil /\ k \notin adds /\ buffer[k] = Nil
    => persisted[k] = Row(Unmarshal(latest[k]))

\* This step is taken by the flush goroutine.
FlushMoves == fl' # fl

\* C3: a step of FlushBatch deletes a stored value only if the value does not
\* parse, or it is the script deleting a value equal to the snapshot that a
\* successful flushFunc call of this invocation was given.
C3_FlushDeletesOnlyPersisted ==
  [][\A k \in Keys :
       FlushMoves /\ buffer[k] # Nil /\ buffer'[k] = Nil
       => \/ ~Parses(buffer[k])
          \/ fl.pc = "evict" /\ k \in fl.items /\ buffer[k] = fl.originalData[k]]_vars

\* No Add, FlushBatch or CleanupStale call is part-way through its commands.
Quiescent ==
  /\ adds = {}
  /\ fl.pc \in {"idle", "ret", "exited"}
  /\ rp.pc \in {"idle", "exited"}

\* C4: whenever no call is part-way through, a user ID is in the pending set
\* exactly if the hash holds a record of it.
C4_IndexMatchesRecords ==
  Quiescent => \A k \in Keys : k \in pending <=> buffer[k] # Nil

\* C5: a two-command mutation writes the record before it indexes the user ID
\* and takes the user ID out of the index before it deletes the record: SADD
\* runs after the HSET of its Add, and a record deleted by a command other
\* than the atomic script is no longer indexed.
C5_WriteThenIndexDeindexThenDelete ==
  [][\A k \in Keys :
       /\ k \notin pending /\ k \in pending' => k \in adds
       /\ buffer[k] # Nil /\ buffer'[k] = Nil /\ ~(FlushMoves /\ fl.pc = "evict")
          => k \notin pending]_vars

\* C7: with the ticker firing for ever and flushFunc succeeding again and
\* again, no parseable value stays in the hash for ever: it is replaced, or
\* flushed and evicted.
C7_EveryRecordFlushed ==
  \A k \in Keys : \A v \in Values :
    Parses(v) => ((buffer[k] = v) ~> (buffer[k] # v))

\* C8: when the drain loop has ended after a Close that found only parseable,
\* indexed records and nothing under way, with no Add, no flushFunc error and
\* no expired deadline since, the pending set and the hash are empty and every
\* record Close found has been given to flushFunc.
C8_DrainDeliversAll ==
  fl.pc = "exited" /\ hDrain.st = "clean"
  => /\ pending = {}
     /\ buffer = NoData
     /\ \A k \in Keys : hDrain.at[k] # Nil => persisted[k] = Row(Unmarshal(hDrain.at[k]))

\* C9: the client is closed only after the drain loop has finished.
C9_ClientClosedAfterDrain == clientClosed => fl.pc = "exited"

\* C10: the drain loop ends only after a FlushBatch call that returned 0
\* flushed items or with the deadline passed, and after a call that flushed
\* something it calls FlushBatch again.
C10_DrainLoop ==
  [][/\ fl.pc # "exited" /\ fl'.pc = "exited"
        => fl.pc = "ret" /\ fl.mode = "drain" /\ (fl.flushed = 0 \/ fl.expired)
     /\ FlushMoves /\ fl.pc = "ret" /\ fl.mode = "drain" /\ fl.flushed > 0
        => fl'.pc # "exited" /\ fl'.mode = "drain"]_vars

\* The drain has flushed something in one call and got 0 from a later one.
C10_Witness ==
  /\ fl.pc = "ret" /\ fl.mode = "drain" /\ fl.flushed = 0 /\ fl.err = "nil"
  /\ used.flush = 0
  /\ \E k \in Keys : persisted[k] # Nil

\* C11: once stopFlush is closed, backgroundFlush starts no FlushBatch of the
\* ticker case (the calls it starts are those of the drain) and
\* backgroundCleanup starts no CleanupStale.
C11_NoPeriodicCycleAfterStop ==
  [][stopFlush
     => /\ fl.pc = "idle" /\ fl' # fl => fl'.mode = "drain"
        /\ rp.pc = "idle" /\ rp' # rp => rp'.pc = "exited"]_vars

\* C12: the user IDs one FlushBatch call selects are at most MaxBatchSize, and
\* SRANDMEMBER with a count n >= 1 never replies with more than n members,
\* whatever the size of the pending set.
C12_BatchCapRespected ==
  /\ Cardinality(fl.sel) <= MaxBatchSize
  /\ \A n \in 1..(Cardinality(Keys) + 1) :
       \A T \in SRandMemberN(pending, n) : T \subseteq pending /\ Cardinality(T) <= n

\* FlushBatch has selected MaxBatchSize user IDs out of a larger pending set.
C12_Witness ==
  /\ fl.pc = "loop"
  /\ Cardinality(fl.sel) = MaxBatchSize
  /\ Cardinality(pending) > MaxBatchSize

\* This step is FlushBatch getting flushFunc's result.
SinkReturns == fl.pc = "sink" /\ fl'.pc # "sink"

\* C13: FlushBatch calls flushFunc only after its collect loop and goes on to
\* the eviction or returns, so at most once per invocation; the list it passes
\* has at least 1 and at most MaxBatchSize items, each parsed from the
\* snapshot of a different selected user ID, and a successful call upserts
\* exactly those.
C13_OneSinkCallPerBatch ==
  [][/\ fl'.pc = "sink" /\ fl.pc # "sink"
        => /\ fl.pc \in {"loop", "srem", "csrem"}
           /\ fl'.userIDs = {}
           /\ fl'.items # {}
           /\ Cardinality(fl'.items) <= MaxBatchSize
           /\ fl'.items \subseteq fl'.sel
           /\ \A k \in fl'.items : Parses(fl'.originalData[k])
     /\ SinkReturns
        => /\ fl'.pc \in {"evict", "ret"}
           /\ fl'.items = fl.items
           /\ \A k \in Keys :
                persisted'[k] # persisted[k]
                => k \in fl.items /\ persisted'[k] = Row(Unmarshal(fl.originalData[k]))
     /\ fl.pc \in {"evict", "ret"} => fl'.pc # "sink"
     /\ fl.pc # "sink" => persisted' = persisted]_vars

\* flushFunc has succeeded on a full batch and FlushBatch has returned.
C13_Witness ==
  /\ fl.pc = "ret" /\ fl.err = "nil"
  /\ fl.flushed = MaxBatchSize
  /\ Cardinality(fl.sel) = MaxBatchSize
  /\ \A k \in fl.items : persisted[k] = Row(Unmarshal(fl.originalData[k]))

\* This step is backgroundFlush calling FlushBatch (up to the collect loop).
Calls == fl.pc \in {"idle", "ret"} /\ fl' # fl /\ fl'.pc \in {"ret", "loop"}

\* C14: every FlushBatch call made on an empty pending set, with the client
\* open and the context alive, returns (0, nil) at once: flushFunc is not
\* called and the hash, the set and the durable store are unchanged, so that
\* the next call finds the same.
C14_EmptyFlushIsNoOp ==
  [][Calls /\ pending = {} /\ ~clientClosed /\ ~fl'.expired
     => /\ fl'.pc = "ret" /\ fl'.flushed = 0 /\ fl'.err = "nil"
        /\ fl'.items = {}
        /\ buffer' = buffer /\ pending' = pending /\ persisted' = persisted]_vars

\* Every call so far was made on an empty pending set, and the last of
\* several has returned (0, nil).
C14_Witness ==
  /\ fl.pc = "ret" /\ fl.flushed = 0 /\ fl.err = "nil"
  /\ used.flush = MaxFlushTicks /\ used.add = 0
  /\ pending = {} /\ buffer = NoData /\ persisted = NoData

\* The record of k is one the claim says a reap pass removes now: it does not
\* parse, or its UpdatedAt is older than now minus the threshold.
ReapRemovable(k) ==
  /\ buffer[k] # Nil
  /\ ~Parses(buffer[k]) \/ Unmarshal(buffer[k]).UpdatedAt < now - StaleDataThreshold

\* This step is taken by the cleanup goroutine.
ReapMoves == rp' # rp

C16_ReapSparesFreshRecord ==
  [][\A k \in Keys :
       ReapMoves /\ buffer[k] # Nil /\ buffer'[k] = Nil => ReapRemovable(k)]_vars

\* This step is a FlushBatch call returning, or a CleanupStale call
\* returning, with no command failed (client open, context alive).
PassEnds ==
  \/ Returns /\ fl'.err = "nil" /\ ~fl'.expired /\ ~clientClosed'
  \/ ReapMoves /\ rp.pc # "idle" /\ rp'.pc = "idle" /\ rp'.err = "nil" /\ ~clientClosed'

\* flushFunc is never given an unparseable value, and no step of the flush
\* or cleanup goroutine writes a value into the hash or adds to the set.
NoSinkNoReinsert ==
  /\ fl'.pc = "sink" => \A k \in fl'.items : Parses(fl'.originalData[k])
  /\ FlushMoves \/ ReapMoves
     => /\ \A k \in Keys : buffer'[k] # buffer[k] => buffer'[k] = Nil
        /\ pending' \subseteq pending

\* C17: an unparseable value is never given to flushFunc, is gone from the
\* hash when the next FlushBatch call or CleanupStale call has returned, and
\* is not written back by the flush or cleanup goroutine.
C17_CorruptGoneAfterNextPass ==
  [][/\ NoSinkNoReinsert
     /\ PassEnds => \A k \in Keys : buffer'[k] # Nil => Parses(buffer'[k])]_vars

\* C17 as the code has it: a FlushBatch call purges the unparseable values of
\* the user IDs it selected, a CleanupStale call those of every pending user
\* ID; a user ID FlushBatch read an unparseable value of, and no Add has
\* written, is then in neither the hash nor the set.
C17_CorruptGoneAfterPassOverIt ==
  [][/\ NoSinkNoReinsert
     /\ PassEnds
        => \A k \in (IF Returns THEN fl'.sel ELSE Keys) :
             /\ buffer'[k] # Nil => Parses(buffer'[k])
             /\ Returns /\ latest[k] = Nil
                /\ fl'.originalData[k] # Nil /\ ~Parses(fl'.originalData[k])
                => buffer'[k] = Nil /\ k \notin pending']_vars

\* FlushBatch has returned after purging the unparseable value of a user ID
\* it selected, and the unparseable value of one it did not select is still
\* stored and pending.
C17_Witness ==
  /\ fl.pc = "ret" /\ fl.err = "nil"
  /\ \E k \in fl.sel :
       ~Parses(fl.originalData[k]) /\ fl.originalData[k] # Nil
       /\ buffer[k] = Nil /\ k \notin pending
  /\ \E k \in Keys \ fl.sel : buffer[k] = Corrupt /\ k \in pending

\* C18: a script call of the eviction that finds the hash not holding the
\* snapshot of its user ID (the record was reaped, or reaped and written anew
\* by an Add) changes neither the hash nor the set for that user ID, and
\* FlushBatch returns len(items) and no error after the last call.
C18_EvictAfterReapIsNoOp ==
  [][\A k \in Keys :
       /\ fl.pc = "evict" /\ k \in fl.evict /\ k \notin fl'.evict
       /\ buffer[k] # fl.originalData[k]
       => /\ buffer'[k] = buffer[k]
          /\ k \in pending' <=> k \in pending
          /\ fl'.pc = "ret" => fl'.err = "nil" /\ fl'.flushed = Cardinality(fl.items)]_vars

\* CleanupStale removed the record FlushBatch had taken a snapshot of, an Add
\* then wrote another value and completed, flushFunc succeeded and the
\* eviction has run: the Add's record is stored and pending.
C18_Witness ==
  /\ fl.pc = "ret" /\ fl.err = "nil" /\ adds = {}
  /\ used.add = 1
  /\ \E k \in fl.items :
       /\ k \in hReap
       /\ Unmarshal(fl.originalData[k]).UpdatedAt < now - StaleDataThreshold
       /\ persisted[k] = Row(Unmarshal(fl.originalData[k]))
       /\ latest[k] # Nil /\ latest[k] # fl.originalData[k]
       /\ buffer[k] = latest[k] /\ k \in pending

\* The values CleanupStale removes once the clock has reached MaxTime.
ReapableValues ==
  {v \in Values : IF Parses(v) THEN Unmarshal(v).UpdatedAt < MaxTime - StaleDataThreshold
                                ELSE TRUE}

\* C19: with the clock advancing and the cleanup ticker firing for ever, no
\* value stays in the hash for ever, whatever flushFunc returns: a value that
\* does not parse, or whose UpdatedAt is older than the threshold once the
\* clock has reached MaxTime, is eventually replaced or removed.
C19_EveryRecordEventuallyRemoved ==
  \A k \in Keys : \A v \in ReapableValues : (buffer[k] = v) ~> (buffer[k] # v)

\* C20: a tick of flushTicker starts a FlushBatch only when backgroundFlush
\* has no FlushBatch in progress, a tick of cleanupTicker a CleanupStale only
\* when backgroundCleanup has none; and while one goroutine is inside its
\* call (FlushBatch waiting for flushFunc included) the other can start its
\* own on a tick.
C20_TasksIndependentNoSelfOverlap ==
  [][/\ used'.flush # used.flush => fl.pc = "idle"
     /\ used'.reap # used.reap => rp.pc = "idle"
     /\ fl.pc # "idle" /\ rp.pc = "idle" /\ ~stopFlush => ENABLED ReapTick
     /\ rp.pc # "idle" /\ fl.pc = "idle" /\ ~stopFlush => ENABLED FlushTick]_vars

\* CleanupStale is scanning while FlushBatch waits for flushFunc.
C20_Witness ==
  /\ fl.pc = "sink"
  /\ rp.pc \in {"loop", "exec"}
  /\ used.flush >= 1 /\ used.reap >= 1

\* The program runs one of the two buffers: the Redis buffer (producers and
\* the flush goroutine on one user ID) or the in-process buffer (producers on
\* two user IDs and one caller of Flush); the clock runs for both.
RedisUnused == used.add = 0 /\ used.flush = 0 /\ used.reap = 0

MemUnused == used.madd = 0 /\ used.mflush = 0

NextAdd ==
  \/ Tick
  \/ MemUnused /\ AddStep(One)
  \/ MemUnused /\ FlushStep
  \/ RedisUnused /\ used.madd < MaxAdds
     /\ \E k \in Two, p \in Payloads : InventoryBufferAdd(0, k, p)
  \/ RedisUnused /\ used.mflush < MaxFlushTicks /\ FlushLock("bg")
  \/ RedisUnused /\ MemFlushBody("bg")

SpecAdd == InitOn(One) /\ [][NextAdd]_vars

\* C21: an Add replaces the whole record of its user ID and nothing else (HSET
\* in the Redis buffer, the map assignment in the in-process one); as long as
\* no flush and no reap has run, every Added user ID holds the record of its
\* latest Add, Get returns that record, and Count counts each user ID once.
C21_AddOverwrites ==
  [][/\ used'.add # used.add
        => \E k \in Keys :
             /\ buffer' = [buffer EXCEPT ![k] = latest'[k]]
             /\ \E p \in Payloads : latest'[k] = Marshal(0, p, now)
             /\ pending' = pending
     /\ used'.flush = 0 /\ used'.reap = 0
        => /\ \A k \in Keys :
                latest'[k] # Nil
                => /\ buffer'[k] = latest'[k]
                   /\ k \notin adds'
                      => /\ k \in pending'
                         /\ Get(k)' = [found |-> TRUE, inv |-> Unmarshal(latest'[k]), err |-> "nil"]
           /\ adds' = {} => Count' = Cardinality({k \in Keys : buffer'[k] # Nil})
     /\ used'.madd # used.madd
        => \E k \in DOMAIN latestMap' :
             /\ pendingMap' = MapSet(pendingMap, k, latestMap'[k])
             /\ \E p \in Payloads : latestMap'[k] = Inv(0, p, now)
             /\ InventoryBufferGet(k)' = [inv |-> latestMap'[k], exists |-> TRUE]
             /\ InventoryBufferCount' =
                  InventoryBufferCount + (IF k \in DOMAIN pendingMap THEN 0 ELSE 1)]_vars

\* The Redis buffer has taken two Adds of one user ID, the second with
\* payload "b" at a later time than the first, and no flush has run.
C21_Witness ==
  /\ used.add = 2 /\ adds = {} /\ used.flush = 0
  /\ buffer["u1"] = Marshal(0, "b", 2) /\ Count = 1
  /\ persisted = NoData

\* The in-process buffer: producers on two user IDs and both callers of
\* Flush.
NextMem ==
  \/ used.madd < MaxAdds /\ \E k \in Two, p \in Payloads : InventoryBufferAdd(0, k, p)
  \/ \E c \in Flushers :
       \/ used.mflush < MaxFlushTicks /\ FlushLock(c)
       \/ MemFlushBody(c)

SpecMem == InitOn(One) /\ [][NextMem]_vars

\* C22: no Flush call holds b.mu while it is inside flushFunc; a caller that
\* holds the lock releases it in its next step, which waits for nothing; and
\* with the lock free an Add runs, whatever sink calls are in progress.
C22_LockNotHeldAcrossSink ==
  /\ \A c \in Flushers :
       /\ mf[c].pc = "sink" => mu # c
       /\ mu = c => mf[c].pc \in {"locked", "readd"}
                    /\ ENABLED (FlushTake(c) \/ FlushReAdd(c))
  /\ mu = "" => \A k \in Two, p \in Payloads : ENABLED InventoryBufferAdd(0, k, p)

\* An Add has put a new record of u1 into the map while the Flush call that
\* took the earlier one is inside flushFunc.
C22_Witness ==
  /\ mf["bg"].pc = "sink" /\ mu = ""
  /\ "u1" \in DOMAIN mf["bg"].items
  /\ "u1" \in DOMAIN pendingMap
  /\ pendingMap["u1"] # mf["bg"].items["u1"]

\* The flush goroutine, the cleanup goroutine and Close on two user IDs, with
\* flushFunc failing and the contexts of both calls expiring; no producer,
\* the clock standing.
NextRun ==
  \/ FlushStep
  \/ CloseStep(Tickers)
  \/ ReapStep
  \/ ReapCtxExpire

SpecRun == InitOn(Two) /\ [][NextRun]_vars

\* C23: whatever FlushBatch or CleanupStale returned, its goroutine is back at
\* its select and, as long as stopFlush is open, takes the next tick; the
\* goroutines exit only once stopFlush is closed.
C23_ErrorsLeaveTasksRunning ==
  [][/\ FlushMoves /\ fl.pc = "ret" /\ fl.mode = "tick" => fl' = FlIdle
     /\ fl.pc = "idle" /\ ~stopFlush => ENABLED FlushTick
     /\ ReapMoves /\ rp.pc \in {"loop", "exec"} /\ rp'.pc \notin {"loop", "exec"}
        => rp'.pc = "idle"
     /\ rp.pc = "idle" /\ ~stopFlush => ENABLED ReapTick
     /\ fl'.pc = "exited" /\ fl.pc # "exited" => stopFlush
     /\ rp'.pc = "exited" /\ rp.pc # "exited" => stopFlush]_vars

\* With stopFlush open, CleanupStale has returned a store error and is back
\* at its select, and the FlushBatch of the second tick has returned the
\* error of flushFunc with its context expired.
C23_Witness ==
  /\ ~stopFlush
  /\ rp.pc = "idle" /\ rp.err = "store"
  /\ fl.pc = "ret" /\ fl.mode = "tick" /\ fl.err = "sink" /\ fl.expired
  /\ used.flush = 2

\* The service writing one user ID through the Redis buffer, and the clock.
NextSync ==
  \/ Tick
  \/ \E k \in One, p \in Payloads : SyncCall(k, p)
  \/ SyncExec

SpecSync == InitOn(One) /\ [][NextSync]_vars

\* This step is SyncRawInventory going from its lookup into Add.
SyncStarts == sy.pc \in {"idle", "ret"} /\ sy'.pc \in {"exec", "ret"} /\ sy' # sy

C25_MissingRecordDeindexed ==
  [][/\ \A k \in Keys :
          FlushMoves /\ fl.pc = "loop" /\ k \in fl.userIDs /\ k \notin fl'.userIDs
          /\ buffer[k] = Nil
          => /\ fl'.pc = "srem" /\ fl'.cur = k
             /\ fl'.items = fl.items /\ fl'.originalData = fl.originalData
             /\ store' = store
     /\ FlushMoves /\ fl.pc = "srem"
        => /\ pending' = pending \ {fl.cur}
           /\ buffer' = buffer
           /\ fl'.items = fl.items /\ fl.cur \notin fl'.items
           /\ fl'.userIDs = fl.userIDs
           /\ fl'.pc = IF fl.userIDs # {} THEN "loop"
                       ELSE IF fl.items # {} THEN "sink" ELSE "ret"
           /\ persisted' = persisted]_vars

\* FlushBatch found no record of a selected user ID, took it out of the
\* pending set, and is calling flushFunc with the record of another one.
C25_Witness ==
  /\ fl.pc = "sink"
  /\ fl.items # {}
  /\ \E k \in fl.sel \ fl.items :
       fl.originalData[k] = Nil /\ buffer[k] = Nil /\ k \notin pending /\ k \notin adds

\* C26: when FlushBatch returns (0, nil) and no Add has run during the call,
\* the pending set is empty.
C26_ZeroFlushedMeansEmpty ==
  [][Returns /\ fl'.flushed = 0 /\ fl'.err = "nil" /\ used' = used /\ adds = {}
     => pending' = {}]_vars

\* Producers, the flush goroutine and readers on one user ID, with no
\* cleanup goroutine and the clock standing.
NextRead ==
  \/ AddStep(One)
  \/ FlushStep
  \/ \E k \in One : ReadCall(k)
  \/ ReadRepo

SpecRead == InitOn(One) /\ [][NextRead]_vars

\* C27: a GetRawInventory call that started after an Add of its user ID had
\* returned gives back the payload and time of that Add or of an Add that ran
\* during the call.
C27_ReadThroughNeverOlder ==
  rd.pc = "done" /\ rd.floor # Nil
  => \E v \in {rd.floor} \cup rd.newer : rd.res = Answer(Unmarshal(v))

\* C28: in the in-process buffer, when no Flush call is in progress and no
\* flushFunc call has succeeded, every user ID that was Added is in the map
\* with the record of its latest Add.
C28_ReAddKeepsLatest ==
  (\A c \in Flushers : mf[c].pc \in {"idle", "ret"}) /\ persisted = NoData
  => \A k \in DOMAIN latestMap :
       k \in DOMAIN pendingMap /\ pendingMap[k] = latestMap[k]

\* C29: when Add returns an error, the hash holds for its user ID what it
\* held before the call and the user ID is in the pending set exactly if it
\* was before the call.
C29_FailedAddChangesNothing ==
  [][sy' # sy /\ sy'.pc = "ret" /\ sy'.err # "nil"
     => /\ buffer'[sy'.robloxUserID] = sy'.before[1]
        /\ (sy'.robloxUserID \in pending') = sy'.before[2]]_vars

\* C30: when FlushBatch returns (n, nil) with n > 0 and neither an Add nor
\* CleanupStale has touched a selected user ID during the call, the n records
\* given to flushFunc are gone from the hash and their user IDs from the
\* pending set.
C30_FlushedCountIsEvictedCount ==
  [][Returns /\ fl'.flushed > 0 /\ fl'.err = "nil"
     /\ hAdd' = {} /\ hReap' = {} /\ adds' = {} /\ latest' = NoData
     => /\ fl'.flushed = Cardinality(fl'.items)
        /\ \A k \in fl'.items : buffer'[k] = Nil /\ k \notin pending']_vars

\* The user IDs the running CleanupStale call has found with no record: those
\* it has queued a lone SREM for, and the one its last HGET replies nil for.
AbsentFound ==
  {k \in Keys :
     \/ \E i \in 1..Len(rp.pipe) :
          /\ rp.pipe[i] = <<"SREM", k>>
          /\ i = 1 \/ rp.pipe[i - 1] # <<"HDEL", k>>
     \/ k \in rp.userIDs /\ buffer[k] = Nil /\ ~StoreDown(rp.expired)}

\* C31: when the scan of a CleanupStale call that returns no error ends, the
\* call goes on to send an SREM for every user ID it found with no record,
\* whether or not it also found a stale or unparseable record; it does not
\* return with such a user ID still in the pending set (FlushBatch not
\* running and no Add under way, so that nothing else is about to remove it).
C31_AbsentRecordDeindexed ==
  [][/\ ReapMoves /\ rp.pc = "loop" /\ rp'.pc # "loop" /\ rp'.err = "nil"
     /\ fl.pc = "idle" /\ adds = {}
     => \A k \in AbsentFound :
          \/ rp'.pc = "exec" /\ \E i \in 1..Len(rp'.pipe) : rp'.pipe[i] = <<"SREM", k>>
          \/ k \notin pending']_vars

\* Close called any number of times on either buffer: producers and the flush
\* goroutine of the in-process buffer on two user IDs with its Close, and the
\* Close of the Redis buffer.  A later Close of the Redis buffer finds
\* stopOnce done and either closes the client (CloseClient) or gets the error
\* of a closed client, which changes nothing.  Nothing runs once the process
\* has exited.
NextStop ==
  \/ ~crashed /\ \E k \in Two, p \in Payloads :
                   used.madd < MaxAdds /\ InventoryBufferAdd(0, k, p)
  \/ ~crashed /\ used.mflush < MaxFlushTicks /\ FlushLock("bg")
  \/ ~crashed /\ MemFlushBody("bg")
  \/ ~crashed /\ InventoryBufferClose
  \/ ~crashed /\ \E left \in SUBSET Tickers : CloseStop(left)
  \/ ~crashed /\ CloseClient

SpecStop == InitOn(One) /\ [][NextStop]_vars

\* C32: however often Close is called on either buffer, no call panics: the
\* stop channel is closed once and a later Close does not close it again.
C32_CloseAnyNumberOfTimes == ~crashed

\* The producers go on calling Add: the count of Add calls starts again.
MoreAdds ==
  /\ used.add > 0
  /\ used' = [used EXCEPT !.add = 0]
  /\ UNCHANGED <<memVars, sy, rd, tickC, buffer, pending, now, adds, fl, rp, stopFlush,
                 clientClosed, persisted, latest, hAdd, hReap, hDrain>>

\* Producers that never stop, the flush goroutine, the cleanup goroutine and
\* Close on one user ID, the clock standing; each ticker fires once before
\* Close, and once more after it if its channel still holds a tick.  The
\* goroutines and the server keep running and the deadline of a context
\* passes at some time; nothing is assumed of the producers, of flushFunc, or
\* of when Close closes the client.
NextLiveStop ==
  \/ used.add = 0 /\ AddHSet(0, "u1", "a") /\ UNCHANGED sy
  \/ AddSAdd("u1") /\ UNCHANGED sy
  \/ MoreAdds
  \/ (stopFlush \/ used.flush = 0) /\ FlushTick
  \/ FlushBody
  \/ CloseStep(Tickers)
  \/ (stopFlush \/ used.reap = 0) /\ ReapTick
  \/ ReapStop
  \/ \E k \in Keys : ReapHGet(k)
  \/ ReapExec

FairnessStop ==
  /\ WF_vars(FlushBody)
  /\ WF_vars(FlushDrain)
  /\ WF_vars(FlushAfterDrain)
  /\ SF_vars(FlushCtxExpire)
  /\ WF_vars(ReapStop)
  /\ WF_vars((\E k \in Keys : ReapHGet(k)) \/ ReapExec)

SpecLiveStop == InitOn(One) /\ [][NextLiveStop]_vars /\ FairnessStop

\* C33: once stopFlush is closed, backgroundCleanup and backgroundFlush both
\* return, however long the producers go on calling Add and whether or not
\* flushFunc succeeds.
C33_TasksReturnAfterClose ==
  stopFlush ~> (fl.pc = "exited" /\ rp.pc = "exited")

\* Both goroutines have returned with the client still open, after a
\* shutdown during which an Add ran or the deadline passed: flushFunc has
\* been given a record and a record is still buffered.
C33_Witness ==
  /\ stopFlush /\ ~clientClosed
  /\ fl.pc = "exited" /\ rp.pc = "exited"
  /\ hDrain.st = "dirty"
  /\ persisted["u1"] # Nil
  /\ buffer["u1"] # Nil /\ "u1" \in pending

\* The record and the index entry of k are what they were.
Untouched(k) == buffer'[k] = buffer[k] /\ (k \in pending' <=> k \in pending)

\* Producers on two user IDs and the flush goroutine on every user ID, the
\* third holding what an earlier process left.
NextFrame == AddStep(Two) \/ FlushStep

SpecFrame == InitOn(Keys) /\ [][NextFrame]_vars

\* C34: a step of FlushBatch leaves the record and the index entry of every
\* user ID the call did not select as they were; the HSET of Add(k) changes
\* the record of k and nothing else of the hash or the set, and its SADD adds
\* k to the set and changes nothing else.
C34_OtherKeysUntouched ==
  [][/\ FlushMoves => \A k \in Keys \ fl.sel : Untouched(k)
     /\ used'.add # used.add
        => /\ pending' = pending
           /\ \E k \in adds' : /\ buffer'[k] = latest'[k]
                               /\ \A j \in Keys \ {k} : Untouched(j)
     /\ used'.add = used.add /\ adds' # adds
        => /\ buffer' = buffer
           /\ \E k \in adds : adds' = adds \ {k} /\ pending' = pending \cup {k}]_vars

\* FlushBatch has returned after evicting the record of a user ID it
\* selected, while the record a completed Add wrote for a user ID it did not
\* select is in the hash and indexed.
C34_Witness ==
  /\ fl.pc = "ret" /\ fl.err = "nil" /\ fl.flushed > 0
  /\ \E j \in fl.items, k \in Keys \ fl.sel :
       /\ buffer[j] = Nil /\ j \notin pending
       /\ latest[k] # Nil /\ k \notin adds
       /\ buffer[k] = latest[k] /\ k \in pending

====
